---- MODULE Spec2Model ----
(***************************************************************************)
(* zlicer: the adjacency map of a triangle mesh (helpers.get_adj_map), the *)
(* backtracking facet decomposition (helpers.decompose / _decompose) and   *)
(* the STL format detection and decoding (stl_parser.STLParser).           *)
(*                                                                         *)
(* A vertex is a coordinate triple, a facet a triple of vertices, a mesh a *)
(* list of facets.  The recursion of _decompose is an explicit stack of    *)
(* frames; one action is one step of the recursive search.                *)
(***************************************************************************)
EXTENDS Integers, Sequences, FiniteSets, TLC

\* ---------------------------------------------------------------- bounds
NumPoints == 4      \* vertices lie at x = 1..NumPoints on the x axis
MaxFacets == 3      \* longest facet list given to decompose
MaxDepth == 3       \* largest depth argument given to decompose
MaxTriangles == 2   \* largest triangle count a binary header declares
MaxBlocks == 2      \* most facet blocks the text pattern finds in a buffer

VARIABLES
    facets,         \* decompose: the facets argument
    depth,          \* decompose: the depth argument, 0 standing for None
    adj_map,        \* decompose: adj_map, once get_adj_map has returned
    idx,            \* decompose: position of the for loop over facets
    stack,          \* the active calls of _decompose, innermost last
    removed_set,    \* the set shared by every call of _decompose
    rec,            \* the value the last finished _decompose call returned
    result,         \* what decompose returned or raised
    pc,             \* position of the run
    buf,            \* STLParser: the stl_bytes argument (see Buffers)
    is_likely_ascii,\* STLParser._parse: local flag
    parse_error,    \* STLParser._parse: local, "" standing for None
    normals_list,   \* STLParser._normals_list
    vertices_list,  \* STLParser._vertices_list
    outcome         \* STLParser(...): the object built, or the error raised

vars == <<facets, depth, adj_map, idx, stack, removed_set, rec, result, pc,
          buf, is_likely_ascii, parse_error, normals_list, vertices_list,
          outcome>>

decompose_vars == <<facets, depth, adj_map, idx, stack, removed_set, rec,
                    result>>

parser_vars == <<buf, is_likely_ascii, parse_error, normals_list,
                 vertices_list, outcome>>

\* ------------------------------------------------------------- utilities
Range(s) == {s[i] : i \in DOMAIN s}

NoDup(s) == \A i, j \in DOMAIN s : i # j => s[i] # s[j]

Last(s) == s[Len(s)]

Front(s) == SubSeq(s, 1, Len(s) - 1)

\* ------------------------------------------------------ the input meshes
Vertices == {<<x, 0, 0>> : x \in 1..NumPoints}

\* proper triangles, corners in ascending order along the axis
ProperFacets ==
    {f \in Vertices \X Vertices \X Vertices :
        f[1][1] < f[2][1] /\ f[2][1] < f[3][1]}

\* degenerate triangles the parser accepts as well: the first two corners
\* coincide, the third is the next vertex along the axis
NeedleFacets ==
    {f \in Vertices \X Vertices \X Vertices :
        f[1] = f[2] /\ f[3][1] = f[1][1] + 1}

FacetUniverse == ProperFacets \cup NeedleFacets

FacetKey(f) ==
    (f[1][1] * (NumPoints + 1) + f[2][1]) * (NumPoints + 1) + f[3][1]

\* facet lists in ascending order; a facet may occur more than once
Meshes ==
    UNION {{m \in [1..n -> FacetUniverse] :
                \A i \in 1..(n - 1) : FacetKey(m[i]) <= FacetKey(m[i + 1])}
           : n \in 0..MaxFacets}

Depths == 0..MaxDepth

\* ------------------------------------------------------------ helpers.py
facet_to_tuple(facet) == <<facet[1], facet[2], facet[3]>>

point_to_tuple(point) == <<point[1], point[2], point[3]>>

\* the first loop of get_adj_map: vertex -> the facets having it as a corner
point_map(fs) ==
    [p \in {point_to_tuple(fs[i][k]) : i \in DOMAIN fs, k \in 1..3} |->
        {facet_to_tuple(fs[i]) : i \in {j \in DOMAIN fs :
            \E k \in 1..3 : point_to_tuple(fs[j][k]) = p}}]

\* the body of the second loop of get_adj_map for one facet
adj_facets(pm, facet) ==
    LET v1_facets == pm[point_to_tuple(facet[1])]
        v2_facets == pm[point_to_tuple(facet[2])]
        v3_facets == pm[point_to_tuple(facet[3])]
        v1v2_adj == v1_facets \cap v2_facets
        v1v3_adj == v1_facets \cap v3_facets
        v2v3_adj == v2_facets \cap v3_facets
    IN  ((v1v2_adj \cup v1v3_adj) \cup v2v3_adj) \ {facet_to_tuple(facet)}

get_adj_map(fs) ==
    LET pm == point_map(fs)
    IN  [f \in {facet_to_tuple(fs[i]) : i \in DOMAIN fs} |-> adj_facets(pm, f)]

\* three times the centroid of a facet (np.array(f).mean(axis=0) is a third)
CentroidSum(f) == [k \in 1..3 |-> f[1][k] + f[2][k] + f[3][k]]

\* nine times the squared centroid distance: orders as np.linalg.norm does
Dist(f, g) ==
    LET a == CentroidSum(f)
        b == CentroidSum(g)
    IN  (a[1] - b[1]) * (a[1] - b[1]) + (a[2] - b[2]) * (a[2] - b[2])
        + (a[3] - b[3]) * (a[3] - b[3])

\* the orders `sorted` can give adj_map[path[-1]]: ascending distance, and
\* equal distances in the iteration order of a Python set, which is any
adjacent_orders(path, am) ==
    LET last == Last(path)
        cand == am[last]
        n == Cardinality(cand)
    IN  {s \in [1..n -> cand] :
            /\ \A i, j \in 1..n : i # j => s[i] # s[j]
            /\ \A i \in 1..(n - 1) : Dist(last, s[i]) <= Dist(last, s[i + 1])}

\* return values of _decompose: None, or a path
None == [none |-> TRUE, val |-> <<>>]

Some(path) == [none |-> FALSE, val |-> path]

\* Python truth of a return value: None and [] are false
Truthy(r) == ~r.none /\ Len(r.val) > 0

\* lines 57-61: the two tests that end the recursion
CompleteIgnoringDepth(path, am, d) == Len(path) = Cardinality(DOMAIN am)

Complete(path, am, d) ==
    \/ d # 0 /\ Len(path) = d
    \/ Len(path) = Cardinality(DOMAIN am)

\* line 72: the test that skips a facet already in the path
NeverVisited(f, removed) == FALSE

IsVisited(f, removed) == f \in removed

\* line 81: undo the mark of a candidate whose subtree failed
UnmarkNothing(removed, f) == removed

Unmark(removed, f) == removed \ {f}

\* line 70: the for loop moves to the next candidate after a failed one
RestAfterFail(cands) == Tail(cands)

\* line 94: the for loop of decompose moves to the next start facet
SameStart(i) == i

FirstStartOnly(i) == MaxFacets + 1

NextStartIndex(i) == i + 1

\* a call of _decompose: its path, the candidates still to try (empty until
\* lines 64-68 ran), and the removed_set it was entered with
Frame(path, removed) ==
    [path |-> path, cands |-> <<>>, entry_removed |-> removed]

Top == Last(stack)

SetTop(f) == [stack EXCEPT ![Len(stack)] = f]

NoResult == [kind |-> "none", path |-> <<>>]

\* ---------------------------------------------------------- stl_parser.py
\* A buffer is described by what the parser reads of it:
\*   len         len(stl_bytes)
\*   solid       stl_bytes[:5].lower() == b'solid'             (line 50)
\*   strip_solid stl_bytes.strip().startswith(b'solid')        (line 153)
\*   keyword     'facet', 'vertex' or 'endsolid' occurs in the first 512
\*               bytes decoded as ASCII                        (lines 53-54)
\*   blocks      number of matches of facet_pattern in the text (line 115)
\*   bad         the matches with a token float() rejects      (lines 116-127)
\*   count       the little-endian uint32 at bytes 80..83      (line 145)
HeaderSize == 84

RecordSize == 50

AsciiMinSize == 100

\* the shortest text facet_pattern matches
MinBlockSize == 79

MaxLen == HeaderSize + RecordSize * MaxTriangles + 1

Buffers ==
    {b \in [len : 0..MaxLen, solid : BOOLEAN, strip_solid : BOOLEAN,
            keyword : BOOLEAN, blocks : 0..MaxBlocks,
            bad : SUBSET (1..MaxBlocks), count : 0..MaxTriangles] :
        /\ (b.solid \/ b.strip_solid \/ b.keyword) => b.len >= 5
        /\ b.blocks * MinBlockSize <= b.len
        /\ b.bad \subseteq 1..b.blocks
        /\ b.len < HeaderSize => b.count = 0}

NoBuffer ==
    [len |-> 0, solid |-> FALSE, strip_solid |-> FALSE, keyword |-> FALSE,
     blocks |-> 0, bad |-> {}, count |-> 0]

NoOutcome ==
    [kind |-> "none", source |-> "", error |-> "", vertices |-> <<>>,
     normals |-> <<>>]

\* the members of a set of numbers as an ascending list
RECURSIVE Ascending(_)
Ascending(S) ==
    IF S = {} THEN <<>>
    ELSE LET m == CHOOSE x \in S : \A y \in S : x <= y
         IN  <<m>> \o Ascending(S \ {m})

\* lines 50-57
detect_ascii(b) == b.solid /\ b.len > AsciiMinSize /\ b.keyword

\* lines 113-127: the matched blocks whose tokens all convert, in file order
ascii_facets(b) == Ascending((1..b.blocks) \ b.bad)

\* line 149
expected_size(num_triangles) == HeaderSize + num_triangles * RecordSize

\* line 151: the size test of _parse_binary
SizeTooSmallOnly(length, num_triangles) ==
    length < expected_size(num_triangles)

SizeMismatch(length, num_triangles) ==
    length # expected_size(num_triangles)

\* lines 139-156: the error _parse_binary raises before decoding, "" if none
binary_size_error(b) ==
    IF b.len < HeaderSize THEN "too small"
    ELSE IF SizeMismatch(b.len, b.count)
         THEN IF b.strip_solid THEN "size mismatch, likely ASCII"
              ELSE "size mismatch"
         ELSE ""

\* lines 164-191: one list entry per 50-byte record, in file order
binary_facets(b) == [i \in 1..b.count |-> i]

Failure(msg) ==
    [kind |-> "error", source |-> "", error |-> msg, vertices |-> <<>>,
     normals |-> <<>>]

InitParser ==
    /\ buf \in Buffers
    /\ is_likely_ascii = FALSE
    /\ parse_error = ""
    /\ normals_list = <<>>
    /\ vertices_list = <<>>
    /\ outcome = NoOutcome
    /\ pc = "parse"
    /\ facets = <<>>
    /\ depth = 0
    /\ adj_map = <<>>
    /\ idx = 0
    /\ stack = <<>>
    /\ removed_set = {}
    /\ rec = None
    /\ result = NoResult

\* lines 30-37, 49-59: construct the object, look at the prefix
DetectFormat ==
    /\ pc = "parse"
    /\ is_likely_ascii' = detect_ascii(buf)
    /\ pc' = "try_ascii"
    /\ UNCHANGED <<buf, parse_error, normals_list, vertices_list, outcome>>
    /\ UNCHANGED decompose_vars

\* lines 60-64, 95-134: the text decode found facets, _parse returns
ParseAsciiAccept ==
    /\ pc = "try_ascii"
    /\ is_likely_ascii
    /\ ascii_facets(buf) # <<>>
    /\ normals_list' = ascii_facets(buf)
    /\ vertices_list' = ascii_facets(buf)
    /\ outcome' = [outcome EXCEPT !.source = "ascii"]
    /\ pc' = "convert"
    /\ UNCHANGED <<buf, is_likely_ascii, parse_error>>
    /\ UNCHANGED decompose_vars

\* lines 129-131, 65-70: the text decode found no facet and raised
ParseAsciiFail ==
    /\ pc = "try_ascii"
    /\ is_likely_ascii
    /\ ascii_facets(buf) = <<>>
    /\ parse_error' = "Failed to parse as ASCII STL"
    /\ normals_list' = <<>>
    /\ vertices_list' = <<>>
    /\ pc' = "try_binary"
    /\ UNCHANGED <<buf, is_likely_ascii, outcome>>
    /\ UNCHANGED decompose_vars

\* line 60: the buffer does not look like text
SkipAscii ==
    /\ pc = "try_ascii"
    /\ ~is_likely_ascii
    /\ pc' = "try_binary"
    /\ UNCHANGED parser_vars
    /\ UNCHANGED decompose_vars

\* lines 75-85, 139-156: _parse_binary raised, _parse raises in turn
ParseBinaryFail ==
    /\ pc = "try_binary"
    /\ vertices_list = <<>>
    /\ binary_size_error(buf) # ""
    /\ outcome' =
          IF parse_error # ""
          THEN Failure("Failed as ASCII, and failed as Binary")
          ELSE Failure("Failed to parse as Binary STL")
    /\ pc' = "end"
    /\ UNCHANGED <<buf, is_likely_ascii, parse_error, normals_list,
                   vertices_list>>
    /\ UNCHANGED decompose_vars

\* lines 158-162, 78: a count of 0, _parse_binary returns with empty lists
ParseBinaryEmpty ==
    /\ pc = "try_binary"
    /\ vertices_list = <<>>
    /\ binary_size_error(buf) = ""
    /\ buf.count = 0
    /\ normals_list' = <<>>
    /\ vertices_list' = <<>>
    /\ pc' = "final"
    /\ UNCHANGED <<buf, is_likely_ascii, parse_error, outcome>>
    /\ UNCHANGED decompose_vars

\* lines 164-191, 78-79: every record decoded, _parse returns
ParseBinaryAccept ==
    /\ pc = "try_binary"
    /\ vertices_list = <<>>
    /\ binary_size_error(buf) = ""
    /\ buf.count > 0
    /\ normals_list' = binary_facets(buf)
    /\ vertices_list' = binary_facets(buf)
    /\ outcome' = [outcome EXCEPT !.source = "binary"]
    /\ pc' = "convert"
    /\ UNCHANGED <<buf, is_likely_ascii, parse_error>>
    /\ UNCHANGED decompose_vars

\* lines 88-92: nothing was parsed, _parse raises
RaiseNothingParsed ==
    /\ pc = "final"
    /\ vertices_list = <<>>
    /\ outcome' =
          IF parse_error # "" THEN Failure(parse_error)
          ELSE Failure("Could not parse STL data")
    /\ pc' = "end"
    /\ UNCHANGED <<buf, is_likely_ascii, parse_error, normals_list,
                   vertices_list>>
    /\ UNCHANGED decompose_vars

\* lines 39-43: _parse returned, the lists become the arrays of the object
ConvertToArrays ==
    /\ pc = "convert"
    /\ outcome' = [outcome EXCEPT !.kind = "mesh",
                                  !.vertices = vertices_list,
                                  !.normals = normals_list]
    /\ pc' = "end"
    /\ UNCHANGED <<buf, is_likely_ascii, parse_error, normals_list,
                   vertices_list>>
    /\ UNCHANGED decompose_vars

\* --------------------------------------------------------------- decompose
InitDecompose ==
    /\ facets \in Meshes
    /\ depth \in Depths
    /\ adj_map = <<>>
    /\ idx = 0
    /\ stack = <<>>
    /\ removed_set = {}
    /\ rec = None
    /\ result = NoResult
    /\ pc = "start"
    /\ buf = NoBuffer
    /\ is_likely_ascii = FALSE
    /\ parse_error = ""
    /\ normals_list = <<>>
    /\ vertices_list = <<>>
    /\ outcome = NoOutcome

\* line 92
CallGetAdjMap ==
    /\ pc = "start"
    /\ adj_map' = get_adj_map(facets)
    /\ idx' = 1
    /\ pc' = "loop"
    /\ UNCHANGED <<facets, depth, stack, removed_set, rec, result>>
    /\ UNCHANGED parser_vars

\* lines 94-99: the next start facet, and the call of _decompose on it
StartSearch ==
    /\ pc = "loop"
    /\ idx <= Len(facets)
    /\ LET path == <<facet_to_tuple(facets[idx])>>
       IN  /\ removed_set' = Range(path)
           /\ stack' = <<Frame(path, Range(path))>>
    /\ pc' = "enter"
    /\ UNCHANGED <<facets, depth, adj_map, idx, rec, result>>
    /\ UNCHANGED parser_vars

\* line 104: every start facet failed
RaiseNotFound ==
    /\ pc = "loop"
    /\ idx > Len(facets)
    /\ result' = [kind |-> "error", path |-> <<>>]
    /\ pc' = "done"
    /\ UNCHANGED <<facets, depth, adj_map, idx, stack, removed_set, rec>>
    /\ UNCHANGED parser_vars

\* lines 57-61: the path is complete, the call returns it
EnterComplete ==
    /\ pc = "enter"
    /\ Complete(Top.path, adj_map, depth)
    /\ rec' = Some(Top.path)
    /\ stack' = Front(stack)
    /\ pc' = "ret"
    /\ UNCHANGED <<facets, depth, adj_map, idx, removed_set, result>>
    /\ UNCHANGED parser_vars

\* lines 64-68: order the neighbours of the last facet by centroid distance
EnterExpand ==
    /\ pc = "enter"
    /\ ~Complete(Top.path, adj_map, depth)
    /\ \E order \in adjacent_orders(Top.path, adj_map) :
           stack' = SetTop([Top EXCEPT !.cands = order])
    /\ pc' = "iter"
    /\ UNCHANGED <<facets, depth, adj_map, idx, removed_set, rec, result>>
    /\ UNCHANGED parser_vars

\* lines 70-73: the candidate is already in the path
LoopSkip ==
    /\ pc = "iter"
    /\ Top.cands # <<>>
    /\ IsVisited(Head(Top.cands), removed_set)
    /\ stack' = SetTop([Top EXCEPT !.cands = Tail(Top.cands)])
    /\ UNCHANGED <<facets, depth, adj_map, idx, removed_set, rec, result, pc>>
    /\ UNCHANGED parser_vars

\* lines 75-76: mark the candidate and recurse on the extended path
LoopCall ==
    /\ pc = "iter"
    /\ Top.cands # <<>>
    /\ ~IsVisited(Head(Top.cands), removed_set)
    /\ removed_set' = removed_set \cup {Head(Top.cands)}
    /\ stack' = Append(stack, Frame(Append(Top.path, Head(Top.cands)),
                                    removed_set'))
    /\ pc' = "enter"
    /\ UNCHANGED <<facets, depth, adj_map, idx, rec, result>>
    /\ UNCHANGED parser_vars

\* lines 83-84: no candidate is left, the call returns None
DeadEnd ==
    /\ pc = "iter"
    /\ Top.cands = <<>>
    /\ rec' = None
    /\ stack' = Front(stack)
    /\ pc' = "ret"
    /\ UNCHANGED <<facets, depth, adj_map, idx, removed_set, result>>
    /\ UNCHANGED parser_vars

\* lines 79-80: the recursive call found a path, hand it up
Propagate ==
    /\ pc = "ret"
    /\ stack # <<>>
    /\ Truthy(rec)
    /\ stack' = Front(stack)
    /\ UNCHANGED <<facets, depth, adj_map, idx, removed_set, rec, result, pc>>
    /\ UNCHANGED parser_vars

\* line 81: the recursive call failed, unmark and go on with the loop
Backtrack ==
    /\ pc = "ret"
    /\ stack # <<>>
    /\ ~Truthy(rec)
    /\ removed_set' = Unmark(removed_set, Head(Top.cands))
    /\ stack' = SetTop([Top EXCEPT !.cands = RestAfterFail(Top.cands)])
    /\ pc' = "iter"
    /\ UNCHANGED <<facets, depth, adj_map, idx, rec, result>>
    /\ UNCHANGED parser_vars

\* lines 101-102: the search from this start facet found a path
ReturnPath ==
    /\ pc = "ret"
    /\ stack = <<>>
    /\ Truthy(rec)
    /\ result' = [kind |-> "path", path |-> rec.val]
    /\ pc' = "done"
    /\ UNCHANGED <<facets, depth, adj_map, idx, stack, removed_set, rec>>
    /\ UNCHANGED parser_vars

\* lines 94, 101: the search from this start facet failed, try the next
NextStart ==
    /\ pc = "ret"
    /\ stack = <<>>
    /\ ~Truthy(rec)
    /\ idx' = NextStartIndex(idx)
    /\ pc' = "loop"
    /\ UNCHANGED <<facets, depth, adj_map, stack, removed_set, rec, result>>
    /\ UNCHANGED parser_vars

\* ------------------------------------------------------ graph vocabulary
\* the distinct facets of the mesh (facets are identified by value)
FacetSet == Range(facets)

\* the number of different vertices two facets have in common
SharedVertices(f, g) == Cardinality(Range(f) \cap Range(g))

\* each facet of the sequence is listed in the adjacency map of the one before
IsChain(p) == \A i \in 1..(Len(p) - 1) : p[i + 1] \in adj_map[p[i]]

\* the duplicate-free adjacency chains of n facets, from any start facet
ChainsOfLength(n) ==
    {p \in [1..n -> FacetSet] : NoDup(p) /\ IsChain(p)}

HamiltonianPathExists == ChainsOfLength(Cardinality(FacetSet)) # {}

AdjMapBuilt == pc \in {"loop", "enter", "iter", "ret", "done"}

Returned == pc = "done" /\ result.kind = "path"

Raised == pc = "done" /\ result.kind = "error"

\* ------------------------------------------------------------------ claims
\* C1: a path returned by decompose without a depth bound holds every facet
\* of the mesh exactly once, and each facet of it is in the adjacency list
\* of the facet before it.
C1_PathIsAdjacentPermutation ==
    (Returned /\ depth = 0) =>
        /\ Range(result.path) = FacetSet
        /\ NoDup(result.path)
        /\ IsChain(result.path)

C1_Witness ==
    /\ Returned
    /\ depth = 0
    /\ Len(result.path) = 3
    /\ idx > 1

\* C2: on a non-empty mesh and without a depth bound, decompose raises the
\* not-found error exactly when the adjacency graph has no Hamiltonian path
\* from any start facet; otherwise it returns a path.
C2_ExhaustiveSearch ==
    (pc = "done" /\ depth = 0 /\ facets # <<>>) =>
        /\ Raised <=> ~HamiltonianPathExists
        /\ Returned <=> HamiltonianPathExists

C2_Witness ==
    /\ Raised
    /\ depth = 0
    /\ Cardinality(FacetSet) = 3
    /\ \E f \in FacetSet : adj_map[f] # {}

\* C3: get_adj_map gives every facet A an entry holding exactly the other
\* facets that have at least two vertices in common with A: none with fewer
\* than two, none missing, never A itself.
C3_AdjacencyIsSharedEdge ==
    AdjMapBuilt =>
        \A A \in FacetSet :
            /\ A \in DOMAIN adj_map
            /\ adj_map[A] =
                  {B \in FacetSet \ {A} : SharedVertices(A, B) >= 2}

\* C4: the adjacency map is symmetric: if B is listed for A then A is
\* listed for B.
C4_AdjacencySymmetric ==
    AdjMapBuilt =>
        \A A \in DOMAIN adj_map : \A B \in adj_map[A] : A \in adj_map[B]

\* C5: decompose of an empty facet list returns the empty path and does not
\* raise the not-found error.
C5_EmptyMeshGivesEmptyPath ==
    (pc = "done" /\ facets = <<>>) =>
        result = [kind |-> "path", path |-> <<>>]

\* C6: a buffer of exactly 84 bytes with triangle count 0 that is not
\* text-tagged parses to an empty mesh, 0 facets and 0 normals, and no
\* format error is raised.
C6_EmptyBinaryParses ==
    (pc = "end" /\ buf.len = 84 /\ buf.count = 0 /\ ~buf.solid) =>
        /\ outcome.kind = "mesh"
        /\ Len(outcome.vertices) = 0
        /\ Len(outcome.normals) = 0

\* C8: when the text decode did not accept the input and the buffer length
\* differs from 84 + 50 x the declared triangle count, the parse fails with
\* an error and no mesh, not even a partial one, is returned; a buffer of
\* 84 bytes declaring 2 triangles is rejected.
C8_SizeMismatchRejected ==
    (pc = "end" /\ outcome.source # "ascii"
        /\ buf.len # 84 + 50 * buf.count) =>
        /\ outcome.kind = "error"
        /\ outcome.vertices = <<>>
        /\ outcome.normals = <<>>
        /\ vertices_list = <<>>
        /\ normals_list = <<>>

C8_Witness ==
    /\ pc = "end"
    /\ buf.len = 84
    /\ buf.count = 2
    /\ outcome.kind = "error"
    /\ outcome.error = "Failed to parse as Binary STL"

\* C7 as stated, N being the length of the facet list: with 1 <= d <= N a
\* returned path has exactly d facets, none twice, each adjacent to the one
\* before; and the error is raised only if no such chain of d facets exists.
C7_DepthBoundedPath_ListLength ==
    (pc = "done" /\ 1 <= depth /\ depth <= Len(facets)) =>
        /\ Returned =>
              /\ Len(result.path) = depth
              /\ NoDup(result.path)
              /\ IsChain(result.path)
        /\ Raised => ChainsOfLength(depth) = {}

\* C7 amended, N being the number of distinct facets (the size of adj_map):
\* with 1 <= d <= N a returned path has exactly d facets, none twice, each
\* adjacent to the one before; and the error is raised only if no such
\* chain of d facets exists from any start facet.
C7_DepthBoundedPath ==
    (pc = "done" /\ 1 <= depth /\ depth <= Cardinality(FacetSet)) =>
        /\ Returned =>
              /\ Len(result.path) = depth
              /\ NoDup(result.path)
              /\ IsChain(result.path)
        /\ Raised => ChainsOfLength(depth) = {}

C7_Witness ==
    /\ Returned
    /\ depth = 2
    /\ Cardinality(FacetSet) = 3
    /\ Len(result.path) = 2
    /\ idx > 1

\* C9: on entry to _decompose removed_set is exactly the set of the facets
\* of the path and the path has no repeated facet; and a call that returns
\* None leaves removed_set as it was when the call was entered.
C9_VisitedMatchesPath ==
    /\ pc = "enter" =>
          /\ removed_set = Range(Top.path)
          /\ NoDup(Top.path)
    /\ (pc = "iter" /\ Top.cands = <<>>) =>
          removed_set = Top.entry_removed

C9_Witness ==
    /\ pc = "iter"
    /\ Top.cands = <<>>
    /\ Len(stack) = 1
    /\ Cardinality(adj_map[Top.path[1]]) = 2
    /\ removed_set = Top.entry_removed

\* C10: decompose terminates for every facet list and every depth: the run
\* ends by returning a path or by raising the not-found error.
C10_DecomposeTerminates == (pc = "start") ~> (pc = "done")

C10_Witness ==
    /\ Raised
    /\ depth = 3
    /\ Len(facets) = 3
    /\ idx = 4
    /\ \E f \in FacetSet : adj_map[f] # {}

\* ----------------------------------------------------------- specification
Init == InitDecompose

Next ==
    \/ CallGetAdjMap
    \/ StartSearch
    \/ RaiseNotFound
    \/ EnterComplete
    \/ EnterExpand
    \/ LoopSkip
    \/ LoopCall
    \/ DeadEnd
    \/ Propagate
    \/ Backtrack
    \/ ReturnPath
    \/ NextStart

\* a call of decompose
Spec == Init /\ [][Next]_vars

\* a call of decompose that is not suspended: the interpreter takes the next
\* step of a single-threaded computation whenever there is one
FairSpec == Spec /\ WF_vars(Next)

NextParser ==
    \/ DetectFormat
    \/ ParseAsciiAccept
    \/ ParseAsciiFail
    \/ SkipAscii
    \/ ParseBinaryFail
    \/ ParseBinaryEmpty
    \/ ParseBinaryAccept
    \/ RaiseNothingParsed
    \/ ConvertToArrays

\* a construction of STLParser
ParserSpec == InitParser /\ [][NextParser]_vars
====
